---- MODULE Spec2Model ----
(***************************************************************************)
(* contestHub backend, latest revision (src/unnamed/part_000): the contest *)
(* lifecycle, winner declaration, creator/admin deletion, the payment      *)
(* settlement, the user, role and creator-request routes behind their      *)
(* middlewares, submissions, the participant and creator statistics, over  *)
(* the contests, orders, submissions, users and creatorRequests            *)
(* collections.                                                            *)
(* A handler that awaits more than one store or provider call is modelled  *)
(* one step per await, so that requests interleave where the event loop    *)
(* lets them.                                                              *)
(***************************************************************************)
EXTENDS Integers, Sequences, FiniteSets, TLC

\* ------------------------------------------------------------------ bounds
MaxContests == 1
MaxSessions == 1
MaxSubmissions == 1
MaxWinReq == 2
MaxDelReq == 1
MaxLogins == 1
MaxStatContests == 2
MaxStatOrders == 4

\* ------------------------------------------------------- values and inputs
\* An id string that ObjectId.isValid refuses and new ObjectId() throws on.
BadId == 0
\* A field the request body leaves out (JavaScript undefined).
Undefined == "undefined"

Statuses == {"Pending", "Confirmed", "Rejected", "Completed"}
Roles == {"participant", "contestCreator", "admin"}

Creators == {"c1", "c2"}
Admins == {"ad"}
Participants == {"p1"}
Emails == Creators \cup Admins \cup Participants
\* An email that has no user record until its first login.
Visitors == {"v1"}
\* A bearer token that admin.auth().verifyIdToken rejects; a token it accepts is
\* written as the email it decodes to, and Undefined is a request without one.
BadToken == "forged"

\* Optional values: <<>> is "no such field", <<x>> is the field with value x.
None == << >>
Some(x) == << x >>
Opt(S) == {None} \cup {Some(x) : x \in S}

ContestIds == 1..MaxContests
\* The two settlement requests that may be in flight at once.
PayReqs == {1, 2}
WinReqs == 1..MaxWinReq
DelReqs == 1..MaxDelReq
\* Two POST /user requests can be in flight at once.
UsrReqs == {1, 2}

\* participantsCount stays below this: a contest starts at 0 or 1 and every
\* settlement request in flight adds at most one per session.
MaxCount == MaxSessions * Cardinality(PayReqs) + 2

VARIABLES
    contests,      \* contestsCollection: _id -> document
    contestSeq,    \* number of contest documents ever inserted (ids are fresh)
    orders,        \* ordersCollection: sequence of documents, _id = index
    submissions,   \* submissionsCollection: sequence of documents, _id = index
    users,         \* usersCollection: email -> [role, name, lastLoggedIn], the
                   \* document findOne({ email }) returns
    userDups,      \* usersCollection: further documents stored for an email that
                   \* already had one
    usr,           \* POST /user requests in flight
    creatorRequests, \* creatorRequestsCollection: the emails, in insertion order
    sessions,      \* the payment provider's checkout sessions, id = index
    pay,           \* POST /payment-success requests in flight
    win,           \* PATCH /contests/winner requests in flight
    del,           \* DELETE /creator-contests-delete requests in flight
    req,           \* a request on its way through the middleware chain of its route
    resp           \* the response the step just taken sends (else NoResponse)

vars == << contests, contestSeq, orders, submissions, users, userDups, usr, creatorRequests, sessions,
          pay, win, del, req, resp >>

\* ------------------------------------------------------------- documents
\* The winner sub-document written by the winner declaration.
WinnerRecs == [email : Participants, submissionId : 0..MaxSubmissions]

\* Request slots.  pc "idle": no request in the slot.
IdlePay == [pc |-> "idle", sessionId |-> 0, status |-> "none", contestId |-> 0,
            participant |-> Undefined, contest |-> FALSE, order |-> 0, insertedId |-> 0]
IdleWin == [pc |-> "idle", caller |-> Undefined, contestId |-> 0,
            winnerData |-> [email |-> Undefined, submissionId |-> 0]]
IdleDel == [pc |-> "idle", caller |-> Undefined, id |-> 0]
IdleUsr == [pc |-> "idle", body |-> Undefined]
\* token: the bearer token of the Authorization header; tokenEmail: req.tokenEmail;
\* id: req.params.id; body: req.body.
IdleReq == [pc |-> "idle", route |-> "none", token |-> Undefined, tokenEmail |-> Undefined,
            id |-> 0, body |-> Undefined]

\* A response: the route, its outcome, the order id of a settlement response and
\* the role a role gate puts into its 403 body.
\* Slots are interchangeable: an arriving request takes the first free one.
FirstIdle(slots, p) == slots[p].pc = "idle" /\ \A q \in DOMAIN slots : q < p => slots[q].pc # "idle"

Response(route, out, orderId) ==
    [route |-> route, out |-> out, orderId |-> orderId, role |-> "none"]
Denied(route, role) ==
    [route |-> route, out |-> "Forbidden", orderId |-> 0, role |-> role]
\* The step sends no response (the request goes on to its next await).
NoResponse == Response("none", "none", 0)

Init ==
    /\ contests = << >>
    /\ contestSeq = 0
    /\ orders = << >>
    /\ submissions = << >>
    /\ users = [e \in Emails |->
                   [role |-> IF e \in Admins THEN "admin"
                             ELSE IF e \in Creators THEN "contestCreator" ELSE "participant",
                    name |-> "n0", lastLoggedIn |-> 0]]
    /\ sessions = << >>
    /\ pay = [p \in PayReqs |-> IdlePay]
    /\ win = [p \in WinReqs |-> IdleWin]
    /\ del = [p \in DelReqs |-> IdleDel]
    /\ creatorRequests = << >>
    /\ userDups = << >>
    /\ usr = [p \in UsrReqs |-> IdleUsr]
    /\ req = IdleReq
    /\ resp = NoResponse

\* ------------------------------------------------------------ role gates
\* user?.role of usersCollection.findOne({ email })
Role(email) == IF email \in DOMAIN users THEN users[email].role ELSE Undefined
\* verifyADMIN letting every caller with a user record through.
verifyADMINAnyRecord(email) == email \in DOMAIN users

verifyADMIN(email) == Role(email) = "admin"
verifyCREATOR(email) == Role(email) = "contestCreator"

\* ObjectId.isValid(id)
IsValidId(id) == id # BadId

\* ----------------------------------------------------- contest handlers
\* POST /contests: the document is built field by field, status is fixed.
\* NewContestDoc taking the status from the body when it has one (as the earlier
\* revision did).
NewContestDocBodyStatus(data) ==
    [status |-> IF data.status = Undefined THEN "Pending" ELSE data.status,
     winner |-> None,
     contestCreator |-> data.contestCreator,
     category |-> data.category,
     participants |-> data.participants,
     participantsCount |-> data.participantsCount,
     approvedBy |-> Undefined,
     approvedAt |-> Undefined]

NewContestDoc(data) ==
    [status |-> "Pending",
     winner |-> None,
     contestCreator |-> data.contestCreator,
     category |-> data.category,
     participants |-> data.participants,
     participantsCount |-> data.participantsCount,
     approvedBy |-> Undefined,
     approvedAt |-> Undefined]

PostContests(caller, data) ==
    /\ verifyCREATOR(caller)
    /\ contestSeq < MaxContests
    /\ contestSeq' = contestSeq + 1
    /\ contests' = (contestSeq + 1 :> NewContestDoc(data)) @@ contests
    /\ resp' = NoResponse
    /\ UNCHANGED << orders, submissions, users, userDups, usr, creatorRequests, req, sessions, pay, win, del >>

\* PUT /contests-update/:id: $set of the request body without its status.
DeleteStatus(updatedData) == [updatedData EXCEPT !.status = None]

SetFields(doc, updatedData) ==
    [status |-> IF updatedData.status = None THEN doc.status ELSE updatedData.status[1],
     winner |-> IF updatedData.winner = None THEN doc.winner ELSE updatedData.winner[1],
     contestCreator |-> IF updatedData.contestCreator = None THEN doc.contestCreator
                        ELSE updatedData.contestCreator[1],
     participants |-> IF updatedData.participants = None THEN doc.participants
                      ELSE updatedData.participants[1],
     participantsCount |-> IF updatedData.participantsCount = None THEN doc.participantsCount
                           ELSE updatedData.participantsCount[1],
     category |-> doc.category,
     approvedBy |-> doc.approvedBy,
     approvedAt |-> doc.approvedAt]

PutContestsUpdate(caller, id, updatedData) ==
    /\ verifyCREATOR(caller)
    /\ id \in DOMAIN contests
    /\ contests' = [contests EXCEPT ![id] = SetFields(@, DeleteStatus(updatedData))]
    /\ resp' = NoResponse
    /\ UNCHANGED << contestSeq, orders, submissions, users, userDups, usr, creatorRequests, req, sessions, pay, win, del >>

\* PATCH /contest-status/:id
\* AllowedStatus letting every contest status through.
AllowedStatusAny(status) == status \in Statuses

\* ["Confirmed", "Rejected"].includes(status)
AllowedStatus(status) == status \in {"Confirmed", "Rejected"}

\* new Date(): the time of the call.
Now == "now"

StatusUpdateDoc(doc, status, caller) ==
    [doc EXCEPT !.status = status, !.approvedBy = caller, !.approvedAt = Now]

PatchContestStatus(caller, id, status) ==
    /\ verifyADMIN(caller)
    /\ IsValidId(id)
    /\ AllowedStatus(status)
    /\ id \in DOMAIN contests
    /\ contests' = [contests EXCEPT ![id] = StatusUpdateDoc(@, status, caller)]
    /\ resp' = NoResponse
    /\ UNCHANGED << contestSeq, orders, submissions, users, userDups, usr, creatorRequests, req, sessions, pay, win, del >>

\* DELETE /contests-delete/:id
\* RemoveContest that deletes nothing.
RemoveContestNothing(id) == contests

\* contestsCollection.deleteOne({ _id })
RemoveContest(id) == [c \in DOMAIN contests \ {id} |-> contests[c]]

DeleteContestsDelete(caller, id) ==
    /\ verifyADMIN(caller)
    /\ IsValidId(id)
    /\ id \in DOMAIN contests
    /\ contests' = RemoveContest(id)
    /\ resp' = NoResponse
    /\ UNCHANGED << contestSeq, orders, submissions, users, userDups, usr, creatorRequests, req, sessions, pay, win, del >>

\* POST /submit-task
SubmitTask(contestId, email) ==
    /\ Len(submissions) < MaxSubmissions
    /\ submissions' = Append(submissions,
                             [contestId |-> contestId, email |-> email, status |-> "Pending"])
    /\ resp' = NoResponse
    /\ UNCHANGED << contests, contestSeq, orders, users, userDups, usr, creatorRequests, req, sessions, pay, win, del >>

\* ------------------------------------------- PATCH /contests/winner/:id
\* The request arrives: route parameters and body.
PatchWinner(p, caller, contestId, winnerData) ==
    /\ FirstIdle(win, p)
    /\ win' = [win EXCEPT ![p] = [pc |-> "find", caller |-> caller, contestId |-> contestId,
                                  winnerData |-> winnerData]]
    /\ resp' = NoResponse
    /\ UNCHANGED << contests, contestSeq, orders, submissions, users, userDups, usr, creatorRequests, req, sessions, pay, del >>

\* WinnerCheck without the "already declared" test.
WinnerCheckNoWinnerTest(contestId) ==
    IF ~IsValidId(contestId) THEN "InvalidInput"
    ELSE IF contestId \notin DOMAIN contests THEN "NotFound"
    ELSE IF contests[contestId].status # "Confirmed" THEN "InvalidState"
    ELSE "updateContest"

\* WinnerCheck without the "must be Confirmed" test.
WinnerCheckNoStatusTest(contestId) ==
    IF ~IsValidId(contestId) THEN "InvalidInput"
    ELSE IF contestId \notin DOMAIN contests THEN "NotFound"
    ELSE IF contests[contestId].winner # None THEN "Conflict"
    ELSE "updateContest"

\* The checks around the contest read, in source order.
WinnerCheck(contestId) ==
    IF ~IsValidId(contestId) THEN "InvalidInput"
    ELSE IF contestId \notin DOMAIN contests THEN "NotFound"
    ELSE IF contests[contestId].winner # None THEN "Conflict"
    ELSE IF contests[contestId].status # "Confirmed" THEN "InvalidState"
    ELSE "updateContest"

PatchWinnerFind(p) ==
    /\ win[p].pc = "find"
    /\ LET check == WinnerCheck(win[p].contestId) IN
       IF ~verifyCREATOR(win[p].caller)
       THEN /\ win' = [win EXCEPT ![p] = IdleWin]
            /\ resp' = Denied("winner", Role(win[p].caller))
       ELSE IF check = "updateContest"
       THEN /\ win' = [win EXCEPT ![p].pc = "updateContest"]
            /\ resp' = NoResponse
       ELSE /\ win' = [win EXCEPT ![p] = IdleWin]
            /\ resp' = Response("winner", check, 0)
    /\ UNCHANGED << contests, contestSeq, orders, submissions, users, userDups, usr, creatorRequests, req, sessions, pay, del >>

\* WinnerUpdateDoc writing the winner only, the status left to a later write.
WinnerUpdateDocWinnerOnly(doc, winnerData) ==
    [doc EXCEPT !.winner = Some(winnerData)]

\* The $set of the winner declaration: winner and status in one update.
WinnerUpdateDoc(doc, winnerData) ==
    [doc EXCEPT !.winner = Some(winnerData), !.status = "Completed"]

PatchWinnerUpdateContest(p) ==
    /\ win[p].pc = "updateContest"
    /\ IF win[p].contestId \in DOMAIN contests
       THEN /\ contests' = [contests EXCEPT ![win[p].contestId] =
                                WinnerUpdateDoc(@, win[p].winnerData)]
            /\ win' = [win EXCEPT ![p].pc = "updateSubmission"]
            /\ resp' = NoResponse
       ELSE /\ win' = [win EXCEPT ![p] = IdleWin]
            /\ resp' = Response("winner", "NotFound", 0)
            /\ UNCHANGED contests
    /\ UNCHANGED << contestSeq, orders, submissions, users, userDups, usr, creatorRequests, req, sessions, pay, del >>

\* MarkWinner falling back on the first submission when the id matches none.
MarkWinnerOrFirst(subs, submissionId) ==
    IF submissionId \in DOMAIN subs
    THEN [subs EXCEPT ![submissionId].status = "Winner"]
    ELSE IF subs # << >> THEN [subs EXCEPT ![1].status = "Winner"]
    ELSE subs

\* submissionsCollection.updateOne({ _id }, { $set: { status: "Winner" } })
MarkWinner(subs, submissionId) ==
    IF submissionId \in DOMAIN subs
    THEN [subs EXCEPT ![submissionId].status = "Winner"]
    ELSE subs

PatchWinnerUpdateSubmission(p) ==
    /\ win[p].pc = "updateSubmission"
    /\ IF IsValidId(win[p].winnerData.submissionId)
       THEN /\ submissions' = MarkWinner(submissions, win[p].winnerData.submissionId)
            /\ resp' = Response("winner", "Success", 0)
       ELSE /\ resp' = Response("winner", "InternalError", 0)
            /\ UNCHANGED submissions
    /\ win' = [win EXCEPT ![p] = IdleWin]
    /\ UNCHANGED << contests, contestSeq, orders, users, userDups, usr, creatorRequests, req, sessions, pay, del >>

\* A store call of the handler rejects: the catch block answers 500.
PatchWinnerThrows(p) ==
    /\ win[p].pc \in {"find", "updateContest", "updateSubmission"}
    /\ win' = [win EXCEPT ![p] = IdleWin]
    /\ resp' = Response("winner", "InternalError", 0)
    /\ UNCHANGED << contests, contestSeq, orders, submissions, users, userDups, usr, creatorRequests, req,
                    sessions, pay, del >>

\* ----------------------------------- DELETE /creator-contests-delete/:id
CreatorContestsDelete(p, caller, id) ==
    /\ FirstIdle(del, p)
    /\ del' = [del EXCEPT ![p] = [pc |-> "find", caller |-> caller, id |-> id]]
    /\ resp' = NoResponse
    /\ UNCHANGED << contests, contestSeq, orders, submissions, users, userDups, usr, creatorRequests, req, sessions, pay, win >>

\* CreatorDeleteCheck without the ownership test.
CreatorDeleteCheckNoOwnerTest(caller, id) ==
    IF ~IsValidId(id) THEN "InvalidInput"
    ELSE IF id \notin DOMAIN contests THEN "NotFound"
    ELSE IF contests[id].status # "Pending" THEN "Forbidden"
    ELSE "delete"

CreatorDeleteCheck(caller, id) ==
    IF ~IsValidId(id) THEN "InvalidInput"
    ELSE IF id \notin DOMAIN contests THEN "NotFound"
    ELSE IF contests[id].status # "Pending" THEN "Forbidden"
    ELSE IF contests[id].contestCreator # caller THEN "Forbidden"
    ELSE "delete"

CreatorDeleteFind(p) ==
    /\ del[p].pc = "find"
    /\ LET check == CreatorDeleteCheck(del[p].caller, del[p].id) IN
       IF ~verifyCREATOR(del[p].caller)
       THEN /\ del' = [del EXCEPT ![p] = IdleDel]
            /\ resp' = Denied("creatorDelete", Role(del[p].caller))
       ELSE IF check = "delete"
       THEN /\ del' = [del EXCEPT ![p].pc = "delete"]
            /\ resp' = NoResponse
       ELSE /\ del' = [del EXCEPT ![p] = IdleDel]
            /\ resp' = Response("creatorDelete", check, 0)
    /\ UNCHANGED << contests, contestSeq, orders, submissions, users, userDups, usr, creatorRequests, req, sessions, pay, win >>

CreatorDeleteDelete(p) ==
    /\ del[p].pc = "delete"
    /\ IF del[p].id \in DOMAIN contests
       THEN /\ contests' = RemoveContest(del[p].id)
            /\ resp' = Response("creatorDelete", "Success", 0)
       ELSE /\ resp' = Response("creatorDelete", "NotFound", 0)
            /\ UNCHANGED contests
    /\ del' = [del EXCEPT ![p] = IdleDel]
    /\ UNCHANGED << contestSeq, orders, submissions, users, userDups, usr, creatorRequests, req, sessions, pay, win >>

\* -------------------------------------------------- payment settlement
\* The fee the client puts in paymentInfo.contestFee; the session charges it in cents.
ContestFee == 20

\* POST /create-checkout-session: the provider records the metadata.
CreateCheckoutSession(contestId, participant) ==
    /\ Len(sessions) < MaxSessions
    /\ sessions' = Append(sessions, [contestId |-> contestId, participant |-> participant,
                                     status |-> "open", amountTotal |-> ContestFee * 100])
    /\ resp' = NoResponse
    /\ UNCHANGED << contests, contestSeq, orders, submissions, users, userDups, usr, creatorRequests, req, pay, win, del >>

\* The customer pays on the provider's page: the session becomes complete.
CompleteSession(s) ==
    /\ s \in DOMAIN sessions
    /\ sessions[s].status = "open"
    /\ sessions' = [sessions EXCEPT ![s].status = "complete"]
    /\ resp' = NoResponse
    /\ UNCHANGED << contests, contestSeq, orders, submissions, users, userDups, usr, creatorRequests, req, pay, win, del >>

\* session.payment_intent: one payment intent per session.
PaymentIntent(sessionId) == sessionId

\* The _ids of the orders carrying a transaction id.
OrdersOf(os, transactionId) == {i \in DOMAIN os : os[i].transactionId = transactionId}

\* FindOrder that never finds the order (a lookup on the wrong key).
FindOrderWrongKey(transactionId) == 0

\* ordersCollection.findOne({transactionId}): the _id of the first match, 0 if none.
FindOrder(transactionId) ==
    LET hits == OrdersOf(orders, transactionId) IN
    IF hits = {} THEN 0 ELSE CHOOSE i \in hits : \A j \in hits : i <= j

\* The request arrives with a session id.
PaymentSuccess(p, sessionId) ==
    /\ FirstIdle(pay, p)
    /\ pay' = [pay EXCEPT ![p] = [IdlePay EXCEPT !.pc = "retrieve", !.sessionId = sessionId]]
    /\ resp' = NoResponse
    /\ UNCHANGED << contests, contestSeq, orders, submissions, users, userDups, usr, creatorRequests, req, sessions, win, del >>

\* stripe.checkout.sessions.retrieve(sessionId): throws on an unknown session.
PaymentSuccessRetrieve(p) ==
    /\ pay[p].pc = "retrieve"
    /\ IF pay[p].sessionId \in DOMAIN sessions
       THEN /\ pay' = [pay EXCEPT ![p].pc = "findContest",
                                  ![p].status = sessions[pay[p].sessionId].status,
                                  ![p].contestId = sessions[pay[p].sessionId].contestId,
                                  ![p].participant = sessions[pay[p].sessionId].participant]
            /\ resp' = NoResponse
       ELSE /\ pay' = [pay EXCEPT ![p] = IdlePay]
            /\ resp' = Response("payment", "PaymentProcessingFailed", 0)
    /\ UNCHANGED << contests, contestSeq, orders, submissions, users, userDups, usr, creatorRequests, req, sessions, win, del >>

\* contestsCollection.findOne({_id: new ObjectId(contestId)})
PaymentSuccessFindContest(p) ==
    /\ pay[p].pc = "findContest"
    /\ IF IsValidId(pay[p].contestId)
       THEN /\ pay' = [pay EXCEPT ![p].pc = "findOrder",
                                  ![p].contest = (pay[p].contestId \in DOMAIN contests)]
            /\ resp' = NoResponse
       ELSE /\ pay' = [pay EXCEPT ![p] = IdlePay]
            /\ resp' = Response("payment", "PaymentProcessingFailed", 0)
    /\ UNCHANGED << contests, contestSeq, orders, submissions, users, userDups, usr, creatorRequests, req, sessions, win, del >>

\* FirstSettlement without the test for an existing order.
FirstSettlementNoOrderTest(status, contest, order) ==
    status = "complete" /\ contest

\* FirstSettlement without the test for the contest.
FirstSettlementNoContestTest(status, contest, order) ==
    status = "complete" /\ order = 0

\* if (session.status === "complete" && contest && !order)
FirstSettlement(status, contest, order) ==
    status = "complete" /\ contest /\ order = 0

\* ordersCollection.findOne, then the branch; the fall-through responds at once.
PaymentSuccessFindOrder(p) ==
    /\ pay[p].pc = "findOrder"
    /\ LET order == FindOrder(PaymentIntent(pay[p].sessionId)) IN
       IF FirstSettlement(pay[p].status, pay[p].contest, order)
       THEN /\ pay' = [pay EXCEPT ![p].pc = "insertOrder", ![p].order = order]
            /\ resp' = NoResponse
       ELSE /\ pay' = [pay EXCEPT ![p] = IdlePay]
            /\ resp' = Response("payment", "Returned", order)
    /\ UNCHANGED << contests, contestSeq, orders, submissions, users, userDups, usr, creatorRequests, req, sessions, win, del >>

OrderInfo(r) ==
    [contestId |-> r.contestId, transactionId |-> PaymentIntent(r.sessionId),
     participant |-> r.participant,
     contestFee |-> sessions[r.sessionId].amountTotal \div 100]

PaymentSuccessInsertOrder(p) ==
    /\ pay[p].pc = "insertOrder"
    /\ orders' = Append(orders, OrderInfo(pay[p]))
    /\ pay' = [pay EXCEPT ![p].pc = "updateContest", ![p].insertedId = Len(orders) + 1]
    /\ resp' = NoResponse
    /\ UNCHANGED << contests, contestSeq, submissions, users, userDups, usr, creatorRequests, req, sessions, win, del >>

\* $addToSet participants, $inc participantsCount
AddParticipant(doc, participant) ==
    [doc EXCEPT !.participants = @ \cup {participant},
                !.participantsCount = @ + 1]

PaymentSuccessUpdateContest(p) ==
    /\ pay[p].pc = "updateContest"
    /\ IF pay[p].contestId \in DOMAIN contests
       THEN /\ contests[pay[p].contestId].participantsCount < MaxCount
            /\ contests' = [contests EXCEPT ![pay[p].contestId] =
                                AddParticipant(@, pay[p].participant)]
       ELSE UNCHANGED contests
    /\ pay' = [pay EXCEPT ![p] = IdlePay]
    /\ resp' = Response("payment", "Settled", pay[p].insertedId)
    /\ UNCHANGED << contestSeq, orders, submissions, users, userDups, usr, creatorRequests, req, sessions, win, del >>

\* A store call of the handler rejects: the catch block answers 500.
PaymentSuccessThrows(p) ==
    /\ pay[p].pc \in {"findContest", "findOrder", "insertOrder", "updateContest"}
    /\ pay' = [pay EXCEPT ![p] = IdlePay]
    /\ resp' = Response("payment", "PaymentProcessingFailed", 0)
    /\ UNCHANGED << contests, contestSeq, orders, submissions, users, userDups, usr, creatorRequests, req, sessions, win, del >>

\* ------------------------------------------------- the middleware chain
\* Routes behind verifyJWT and verifyADMIN, behind verifyJWT and verifyCREATOR,
\* behind verifyJWT alone, and behind no middleware.
AdminRoutes == {"contestStatus", "contestsDelete", "updateRole"}
CreatorRoutes == {"contests"}
TokenRoutes == {"becomeCreator", "userProfileUpdate"}
OpenRoutes == {"user", "submitTask"}
JWTRoutes == AdminRoutes \cup CreatorRoutes \cup TokenRoutes

\* The collections and the provider's sessions.
stores == << contests, contestSeq, orders, submissions, users, userDups, creatorRequests, sessions >>

\* A request arrives on a route that runs through the chain.
Request(route, token, id, body) ==
    /\ req.pc = "idle"
    /\ req' = [pc |-> "start", route |-> route, token |-> token, tokenEmail |-> Undefined,
               id |-> id, body |-> body]
    /\ resp' = NoResponse
    /\ UNCHANGED << stores, usr, pay, win, del >>

\* admin.auth().verifyIdToken(token) resolves.
ValidToken(token) == token \notin {Undefined, BadToken}

\* next() of verifyJWT: the role gate's await, or the handler's first await.
AfterJWT(route) ==
    IF route \in AdminRoutes \cup CreatorRoutes THEN "gate"
    ELSE IF route = "becomeCreator" THEN "findRequest"
    ELSE "updateProfile"

\* verifyJWT: 401 without a token or with one the provider rejects.
VerifyJWT ==
    /\ req.pc = "start"
    /\ req.route \in JWTRoutes
    /\ IF ValidToken(req.token)
       THEN /\ req' = [req EXCEPT !.tokenEmail = req.token, !.pc = AfterJWT(req.route)]
            /\ resp' = NoResponse
       ELSE /\ req' = IdleReq
            /\ resp' = Response(req.route, "Unauthorized", 0)
    /\ UNCHANGED << stores, usr, pay, win, del >>

\* The role gate of the route.
GatePasses(route, email) ==
    IF route \in AdminRoutes THEN verifyADMIN(email) ELSE verifyCREATOR(email)

\* The awaits of the handlers behind a role gate.
HandlerAwaits == {"updateStatus", "deleteContest", "updateRole", "insertContest"}

\* The handler up to its first await: the await it stops at, or the response of
\* an early return.
HandlerHead(route, id, body) ==
    IF route = "contestStatus"
    THEN IF ~IsValidId(id) THEN "InvalidInput"
         ELSE IF ~AllowedStatus(body.status) THEN "InvalidInput"
         ELSE "updateStatus"
    ELSE IF route = "contestsDelete"
    THEN IF ~IsValidId(id) THEN "InvalidInput" ELSE "deleteContest"
    ELSE IF route = "updateRole" THEN "updateRole"
    ELSE "insertContest"

\* verifyADMIN / verifyCREATOR: the user read resolves; 403 with the role read,
\* or next() and the handler runs to its first await.
Gate ==
    /\ req.pc = "gate"
    /\ LET head == HandlerHead(req.route, req.id, req.body) IN
       IF ~GatePasses(req.route, req.tokenEmail)
       THEN /\ req' = IdleReq
            /\ resp' = Denied(req.route, Role(req.tokenEmail))
       ELSE IF head \in HandlerAwaits
       THEN /\ req' = [req EXCEPT !.pc = head]
            /\ resp' = NoResponse
       ELSE /\ req' = IdleReq
            /\ resp' = Response(req.route, head, 0)
    /\ UNCHANGED << stores, usr, pay, win, del >>

\* PATCH /contest-status/:id: updateOne, 404 when matchedCount is 0.
ContestStatusUpdate ==
    /\ req.pc = "updateStatus"
    /\ IF req.id \in DOMAIN contests
       THEN /\ contests' = [contests EXCEPT ![req.id] =
                                StatusUpdateDoc(@, req.body.status, req.tokenEmail)]
            /\ resp' = Response(req.route, "Success", 0)
       ELSE /\ resp' = Response(req.route, "NotFound", 0)
            /\ UNCHANGED contests
    /\ req' = IdleReq
    /\ UNCHANGED << contestSeq, orders, submissions, users, userDups, usr, creatorRequests, sessions,
                    pay, win, del >>

\* DELETE /contests-delete/:id: deleteOne, 404 when deletedCount is 0.
ContestsDeleteDelete ==
    /\ req.pc = "deleteContest"
    /\ IF req.id \in DOMAIN contests
       THEN /\ contests' = RemoveContest(req.id)
            /\ resp' = Response(req.route, "Success", 0)
       ELSE /\ resp' = Response(req.route, "NotFound", 0)
            /\ UNCHANGED contests
    /\ req' = IdleReq
    /\ UNCHANGED << contestSeq, orders, submissions, users, userDups, usr, creatorRequests, sessions,
                    pay, win, del >>

\* POST /contests: insertOne.
ContestsInsert ==
    /\ req.pc = "insertContest"
    /\ contestSeq' = contestSeq + 1
    /\ contests' = (contestSeq + 1 :> NewContestDoc(req.body)) @@ contests
    /\ req' = IdleReq
    /\ resp' = Response(req.route, "Success", 0)
    /\ UNCHANGED << orders, submissions, users, userDups, usr, creatorRequests, sessions, pay, win, del >>

\* -------------------------------------------------------- user routes
\* PATCH /update-role: $set of the role of the user with the body's email.
SetRole(us, email, role) ==
    IF email \in DOMAIN us THEN [us EXCEPT ![email].role = role] ELSE us

UpdateRoleUpdate ==
    /\ req.pc = "updateRole"
    /\ users' = SetRole(users, req.body.email, req.body.role)
    /\ req' = [req EXCEPT !.pc = "deleteRequest"]
    /\ resp' = NoResponse
    /\ UNCHANGED << contests, contestSeq, orders, submissions, userDups, usr, creatorRequests, sessions,
                    pay, win, del >>

\* The requests of an email, by position.
RequestsOf(rs, email) == {i \in DOMAIN rs : rs[i] = email}

\* creatorRequestsCollection.deleteOne({ email }): the first match goes.
DeleteOne(rs, email) ==
    LET hits == RequestsOf(rs, email) IN
    IF hits = {} THEN rs
    ELSE LET i == CHOOSE h \in hits : \A j \in hits : h <= j IN
         SubSeq(rs, 1, i - 1) \o SubSeq(rs, i + 1, Len(rs))

UpdateRoleDelete ==
    /\ req.pc = "deleteRequest"
    /\ creatorRequests' = DeleteOne(creatorRequests, req.body.email)
    /\ req' = IdleReq
    /\ resp' = Response(req.route, "Success", 0)
    /\ UNCHANGED << contests, contestSeq, orders, submissions, users, userDups, usr, sessions, pay, win, del >>

\* AlreadyRequested that never finds the request.
AlreadyRequestedNever(rs, email) == FALSE

\* POST /become-creator: findOne({ email }) of the verified email.
AlreadyRequested(rs, email) == RequestsOf(rs, email) # {}

BecomeCreatorFind ==
    /\ req.pc = "findRequest"
    /\ IF AlreadyRequested(creatorRequests, req.tokenEmail)
       THEN /\ req' = IdleReq
            /\ resp' = Response(req.route, "Conflict", 0)
       ELSE /\ req' = [req EXCEPT !.pc = "insertRequest"]
            /\ resp' = NoResponse
    /\ UNCHANGED << stores, usr, pay, win, del >>

BecomeCreatorInsert ==
    /\ req.pc = "insertRequest"
    /\ creatorRequests' = Append(creatorRequests, req.tokenEmail)
    /\ req' = IdleReq
    /\ resp' = Response(req.route, "Success", 0)
    /\ UNCHANGED << contests, contestSeq, orders, submissions, users, userDups, usr, sessions, pay, win, del >>

\* PATCH /user-profile-update: $set of the profile fields, 404 without a record.
UserProfileUpdate ==
    /\ req.pc = "updateProfile"
    /\ IF req.tokenEmail \in DOMAIN users
       THEN /\ users' = [users EXCEPT ![req.tokenEmail].name = req.body.name]
            /\ resp' = Response(req.route, "Success", 0)
       ELSE /\ resp' = Response(req.route, "NotFound", 0)
            /\ UNCHANGED users
    /\ req' = IdleReq
    /\ UNCHANGED << contests, contestSeq, orders, submissions, userDups, usr, creatorRequests, sessions,
                    pay, win, del >>

\* POST /user: findOne({ email }) of the body's email.
UserFind ==
    /\ req.pc = "start"
    /\ req.route = "user"
    /\ req' = [req EXCEPT !.pc = IF req.body.email \in DOMAIN users
                                 THEN "updateLogin" ELSE "insertUser"]
    /\ resp' = NoResponse
    /\ UNCHANGED << stores, usr, pay, win, del >>

\* $set of lastLoggedIn (here: the number of logins after the first).
TouchLogin(us, email) ==
    IF email \in DOMAIN us THEN [us EXCEPT ![email].lastLoggedIn = @ + 1] ELSE us

UserUpdateLogin ==
    /\ req.pc = "updateLogin"
    /\ users' = TouchLogin(users, req.body.email)
    /\ req' = IdleReq
    /\ resp' = Response(req.route, "Success", 0)
    /\ UNCHANGED << contests, contestSeq, orders, submissions, userDups, usr, creatorRequests, sessions,
                    pay, win, del >>

\* NewUserDoc keeping the role of the body.
NewUserDocBodyRole(userData) ==
    [role |-> userData.role, name |-> userData.name, lastLoggedIn |-> 0]

\* userData.role = "participant" overwrites whatever role the body has.
NewUserDoc(userData) ==
    [role |-> "participant", name |-> userData.name, lastLoggedIn |-> 0]

\* usersCollection.insertOne(userData): the collection has no unique index on
\* email, so the document is stored whether or not one with the email exists;
\* findOne and updateOne keep using the one stored first.
UsersWith(us, userData) ==
    IF userData.email \in DOMAIN us THEN us
    ELSE (userData.email :> NewUserDoc(userData)) @@ us
DupsWith(us, dups, userData) ==
    IF userData.email \in DOMAIN us
    THEN Append(dups, [email |-> userData.email, doc |-> NewUserDoc(userData)])
    ELSE dups

UserInsert ==
    /\ req.pc = "insertUser"
    /\ users' = UsersWith(users, req.body)
    /\ userDups' = DupsWith(users, userDups, req.body)
    /\ req' = IdleReq
    /\ resp' = Response(req.route, "Success", 0)
    /\ UNCHANGED << contests, contestSeq, orders, submissions, usr, creatorRequests, sessions,
                    pay, win, del >>

\* POST /user, requests interleaving at their awaits: the same handler, one slot
\* per request in flight.
PostUser(p, userData) ==
    /\ FirstIdle(usr, p)
    /\ usr' = [usr EXCEPT ![p] = [pc |-> "find", body |-> userData]]
    /\ resp' = NoResponse
    /\ UNCHANGED << stores, pay, win, del, req >>

PostUserFind(p) ==
    /\ usr[p].pc = "find"
    /\ usr' = [usr EXCEPT ![p].pc = IF usr[p].body.email \in DOMAIN users
                                    THEN "updateLogin" ELSE "insertUser"]
    /\ resp' = NoResponse
    /\ UNCHANGED << stores, pay, win, del, req >>

PostUserUpdateLogin(p) ==
    /\ usr[p].pc = "updateLogin"
    /\ users' = TouchLogin(users, usr[p].body.email)
    /\ usr' = [usr EXCEPT ![p] = IdleUsr]
    /\ resp' = Response("user", "Success", 0)
    /\ UNCHANGED << contests, contestSeq, orders, submissions, userDups, creatorRequests,
                    sessions, pay, win, del, req >>

PostUserInsert(p) ==
    /\ usr[p].pc = "insertUser"
    /\ users' = UsersWith(users, usr[p].body)
    /\ userDups' = DupsWith(users, userDups, usr[p].body)
    /\ usr' = [usr EXCEPT ![p] = IdleUsr]
    /\ resp' = Response("user", "Success", 0)
    /\ UNCHANGED << contests, contestSeq, orders, submissions, creatorRequests,
                    sessions, pay, win, del, req >>

\* ------------------------------------------------------------- failures
\* POST /submit-task: insertOne of the submission built from the body.
SubmitTaskInsert ==
    /\ req.pc = "start"
    /\ req.route = "submitTask"
    /\ submissions' = Append(submissions,
                             [contestId |-> req.body.contestId, email |-> req.body.email,
                              status |-> "Pending"])
    /\ req' = IdleReq
    /\ resp' = Response(req.route, "Success", 0)
    /\ UNCHANGED << contests, contestSeq, orders, users, userDups, usr, creatorRequests, sessions,
                    pay, win, del >>

\* The await the request stands at is inside a try block of its handler.  The
\* role gates, PATCH /update-role, POST /user, POST /become-creator and
\* POST /submit-task have none.
Caught(route, pc) ==
    /\ pc # "gate"
    /\ route \in {"contestStatus", "contestsDelete", "contests", "userProfileUpdate"}

\* The store or provider call the request awaits rejects: verifyJWT's catch
\* answers 401, a handler's catch answers 500, and without a catch the rejection
\* leaves the middleware or handler and no response is sent.
Rejects ==
    /\ req.pc \notin {"idle", "unhandled"}
    /\ IF req.pc = "start" /\ req.route \in JWTRoutes
       THEN /\ req' = IdleReq
            /\ resp' = Response(req.route, "Unauthorized", 0)
       ELSE IF Caught(req.route, req.pc)
       THEN /\ req' = IdleReq
            /\ resp' = Response(req.route, "InternalError", 0)
       ELSE /\ req' = [req EXCEPT !.pc = "unhandled"]
            /\ resp' = NoResponse
    /\ UNCHANGED << stores, usr, pay, win, del >>

\* GET /contest-submission-status/:contestId/:email: findOne of the pair.
Submitted(contestId, email) ==
    \E i \in DOMAIN submissions :
        submissions[i].contestId = contestId /\ submissions[i].email = email

ContestSubmissionStatus(contestId, email) ==
    /\ resp' = [route |-> "submissionStatus", out |-> "Success", orderId |-> 0,
                role |-> "none", submitted |-> Submitted(contestId, email)]
    /\ UNCHANGED << stores, usr, pay, win, del, req >>

\* ------------------------------------------------- participant statistics
\* ordersCollection.countDocuments({ participant: email })
ParticipationCount(email) ==
    Cardinality({i \in DOMAIN orders : orders[i].participant = email})

\* contestsCollection.countDocuments({ "winner.email": email, status: "Completed" })
WinCount(email) ==
    Cardinality({c \in DOMAIN contests :
                    /\ contests[c].status = "Completed"
                    /\ contests[c].winner # None
                    /\ contests[c].winner[1].email = email})

\* winPercentage as the fraction <<numerator, denominator>>: 0, or
\* (winCount / participationCount) * 100 when there are participations.
WinPercentage(winCount, participationCount) ==
    IF participationCount > 0 THEN << winCount * 100, participationCount >> ELSE << 0, 1 >>

\* ToFixed2 cutting the digits after the second instead of rounding.
ToFixed2Truncate(x) ==
    LET n == (x[1] * 100) \div x[2] IN [whole |-> n \div 100, frac |-> n % 100]

\* Number.prototype.toFixed(2): the decimal string with two digits after the
\* point nearest to x, the larger one on a tie; whole is the part before the
\* point, frac the two digits after it.  (The quotients of counts this small are
\* further from a tie than the rounding error of the double division.)
ToFixed2(x) ==
    LET n == (2 * x[1] * 100 + x[2]) \div (2 * x[2]) IN [whole |-> n \div 100, frac |-> n % 100]

\* The body both statistics routes send for the verified email.
StatsResponse(route, email) ==
    [route |-> route, out |-> "Success", orderId |-> 0, role |-> "none",
     email |-> email,
     participationCount |-> ParticipationCount(email),
     winCount |-> WinCount(email),
     winPercentage |-> ToFixed2(WinPercentage(WinCount(email), ParticipationCount(email)))]

\* GET /my-stats for the email of a verified token.
MyStats(email) ==
    /\ resp' = StatsResponse("myStats", email)
    /\ UNCHANGED << stores, usr, pay, win, del, req >>

\* Identifiers as the store compares them: a contest's _id is an ObjectId, the
\* contestId of an order is the text taken from the session metadata. Values of
\* different types are never equal.
ObjectId(hex) == [type |-> "objectId", hex |-> hex]
TextId(hex) == [type |-> "string", hex |-> hex]
IdToString(id) == [type |-> "string", hex |-> id.hex]

\* $lookup of /Participant-stats: the order's contestId against the contests' _id.
ContestDetails(i) ==
    {c \in DOMAIN contests : TextId(orders[i].contestId) = ObjectId(c)}

\* $match, $lookup, $unwind: one row per (order of the participant, joined contest).
CategoryRows(email) ==
    UNION {{<< i, c >> : c \in ContestDetails(i)} :
              i \in {j \in DOMAIN orders : orders[j].participant = email}}

\* $group by the joined contest's category with a count of rows.
CategoryStats(email) ==
    LET rows == CategoryRows(email)
        cats == {contests[r[2]].category : r \in rows}
    IN  [cat \in cats |-> Cardinality({r \in rows : contests[r[2]].category = cat})]

\* GET /Participant-stats for the email of a verified token.
ParticipantStats(email) ==
    /\ resp' = [categoryStats |-> CategoryStats(email)]
                   @@ StatsResponse("participantStats", email)
    /\ UNCHANGED << stores, usr, pay, win, del, req >>

\* GET /creator-stats. $match: the creator's contests in the three counted statuses.
CreatorMatched(email) ==
    {c \in DOMAIN contests :
        /\ contests[c].contestCreator = email
        /\ contests[c].status \in {"Pending", "Confirmed", "Completed"}}

\* $lookup with $expr: the order's contestId equals the text of the contest's _id,
\* or the _id itself.
Participations(c) ==
    {i \in DOMAIN orders :
        \/ TextId(orders[i].contestId) = IdToString(ObjectId(c))
        \/ TextId(orders[i].contestId) = ObjectId(c)}

\* $unwind with preserveNullAndEmptyArrays: one row per participation of a contest,
\* and for a contest without participations one row in which the field is missing.
Missing == 0
Unwound(email) ==
    UNION {IF Participations(c) = {} THEN {<< c, Missing >>}
           ELSE {<< c, i >> : i \in Participations(c)} :
              c \in CreatorMatched(email)}

\* {$ne: ["$participations", null]}: a missing field is not equal to null.
NeNull(participation) == TRUE

\* $sum over the rows of $cond(participation is not null, its contestFee, 0); a
\* missing contestFee adds nothing.
RECURSIVE SumRevenue(_)
SumRevenue(rows) ==
    IF rows = {} THEN 0
    ELSE LET r == CHOOSE x \in rows : TRUE
         IN  (IF NeNull(r[2]) /\ r[2] # Missing THEN orders[r[2]].contestFee ELSE 0)
                 + SumRevenue(rows \ {r})

\* $group with _id null: the sums over all rows; no row gives the default zeros.
FinalStats(email) ==
    LET rows == Unwound(email)
    IN  [totalRevenue |-> SumRevenue(rows),
         totalParticipants |-> Cardinality({r \in rows : NeNull(r[2])}),
         pendingContests |-> Cardinality({r \in rows : contests[r[1]].status = "Pending"}),
         confirmedContests |-> Cardinality({r \in rows : contests[r[1]].status = "Confirmed"}),
         completedContests |-> Cardinality({r \in rows : contests[r[1]].status = "Completed"})]

CreatorStats(email) ==
    /\ verifyCREATOR(email)
    /\ resp' = [route |-> "creatorStats", out |-> "Success", orderId |-> 0, role |-> "none",
                email |-> email,
                totalContests |->
                    Cardinality({c \in DOMAIN contests : contests[c].contestCreator = email})]
                   @@ FinalStats(email)
    /\ UNCHANGED << stores, usr, pay, win, del, req >>

\* ------------------------------------------------------ request bodies
NoUpdate == [status |-> None, winner |-> None, contestCreator |-> None,
             participants |-> None, participantsCount |-> None]

\* Bodies of the lifecycle scenarios: status, winner and creator fields.
LifeContestBodies ==
    [status : Statuses \cup {Undefined}, contestCreator : Creators, category : {"art"},
     participants : {{}}, participantsCount : {0}]
LifeUpdateBodies ==
    {[NoUpdate EXCEPT !.status = s] : s \in Opt(Statuses)}
    \cup {[NoUpdate EXCEPT !.winner = Some(w)] : w \in Opt(WinnerRecs)}
    \cup {[NoUpdate EXCEPT !.contestCreator = Some(c)] : c \in Creators}

\* Bodies of the settlement scenarios: participant set and counter fields.
PayContestBodies ==
    [status : {Undefined}, contestCreator : {"c1"}, category : {"art"},
     participants : SUBSET Participants, participantsCount : 0..1]
\* Bodies of the interleaved settlement scenarios.
RaceContestBodies ==
    [status : {Undefined}, contestCreator : {"c1"}, category : {"art"},
     participants : {{}}, participantsCount : {0}]
PayUpdateBodies ==
    {[NoUpdate EXCEPT !.participants = ps] : ps \in Opt(SUBSET Participants)}
    \cup {[NoUpdate EXCEPT !.participantsCount = n] : n \in Opt(0..1)}

\* ------------------------------------------------------ specifications
InFlight ==
    \/ \E p \in PayReqs : pay[p].pc # "idle"
    \/ \E p \in WinReqs : win[p].pc # "idle"
    \/ \E p \in DelReqs : del[p].pc # "idle"
    \/ \E p \in UsrReqs : usr[p].pc # "idle"
    \/ req.pc # "idle"

\* Contest lifecycle, one request at a time: a request (or a whole single-await
\* handler) begins when none is in flight.
LifeBeginSeq ==
    \/ ~InFlight /\ \E caller \in Emails, data \in LifeContestBodies : PostContests(caller, data)
    \/ ~InFlight /\ \E caller \in Emails, id \in ContestIds, updatedData \in LifeUpdateBodies :
           PutContestsUpdate(caller, id, updatedData)
    \/ ~InFlight /\ \E caller \in Emails, id \in ContestIds, status \in Statuses :
           PatchContestStatus(caller, id, status)
    \/ ~InFlight /\ \E caller \in Emails, id \in ContestIds : DeleteContestsDelete(caller, id)

\* Winner declaration and the submissions it marks.
WinnerBeginSeq ==
    \/ ~InFlight /\ \E contestId \in ContestIds, email \in Participants :
           SubmitTask(contestId, email)
    \/ ~InFlight /\ \E p \in WinReqs, caller \in Emails, contestId \in 0..MaxContests,
          winnerData \in WinnerRecs : PatchWinner(p, caller, contestId, winnerData)

WinnerContinue ==
    \/ \E p \in WinReqs : PatchWinnerFind(p)
    \/ \E p \in WinReqs : PatchWinnerUpdateContest(p)
    \/ \E p \in WinReqs : PatchWinnerUpdateSubmission(p)

\* Lifecycle with winner declarations, one request at a time.
NextWinnerSeq == LifeBeginSeq \/ WinnerBeginSeq \/ WinnerContinue
SpecWinnerSeq == Init /\ [][NextWinnerSeq]_vars

\* Deletion by the creator.
CreatorDeleteBeginSeq ==
    ~InFlight /\ \E p \in DelReqs, caller \in Emails, id \in 0..MaxContests :
                     CreatorContestsDelete(p, caller, id)

CreatorDeleteContinue ==
    \/ \E p \in DelReqs : CreatorDeleteFind(p)
    \/ \E p \in DelReqs : CreatorDeleteDelete(p)

\* Lifecycle with deletions by creators, one request at a time.
NextCreatorDeleteSeq == LifeBeginSeq \/ CreatorDeleteBeginSeq \/ CreatorDeleteContinue
SpecCreatorDeleteSeq == Init /\ [][NextCreatorDeleteSeq]_vars

\* Settlement: requests that open (or are) a whole handler.
PayBegin ==
    \/ \E caller \in Emails, data \in RaceContestBodies : PostContests(caller, data)
    \/ \E caller \in Emails, id \in ContestIds : DeleteContestsDelete(caller, id)
    \/ \E contestId \in 0..MaxContests, participant \in Participants :
           CreateCheckoutSession(contestId, participant)
    \/ \E s \in 1..MaxSessions : CompleteSession(s)
    \/ \E p \in PayReqs, sessionId \in 1..MaxSessions : PaymentSuccess(p, sessionId)

\* The same, one request at a time.
PayBeginSeq ==
    \/ ~InFlight /\ \E caller \in Emails, data \in PayContestBodies : PostContests(caller, data)
    \/ ~InFlight /\ \E caller \in Emails, id \in ContestIds, updatedData \in PayUpdateBodies :
           PutContestsUpdate(caller, id, updatedData)
    \/ ~InFlight /\ \E caller \in Emails, id \in ContestIds : DeleteContestsDelete(caller, id)
    \/ ~InFlight /\ \E contestId \in 0..MaxContests, participant \in Participants :
           CreateCheckoutSession(contestId, participant)
    \/ ~InFlight /\ \E s \in 1..MaxSessions : CompleteSession(s)
    \/ ~InFlight /\ \E p \in PayReqs, sessionId \in 1..MaxSessions : PaymentSuccess(p, sessionId)

\* The awaits of a settlement request in flight.
PayContinue ==
    \/ \E p \in PayReqs : PaymentSuccessRetrieve(p)
    \/ \E p \in PayReqs : PaymentSuccessFindContest(p)
    \/ \E p \in PayReqs : PaymentSuccessFindOrder(p)
    \/ \E p \in PayReqs : PaymentSuccessInsertOrder(p)
    \/ \E p \in PayReqs : PaymentSuccessUpdateContest(p)

\* Settlement, one request at a time, store and provider answering.
NextPaySeq == PayBeginSeq \/ PayContinue
SpecPaySeq == Init /\ [][NextPaySeq]_vars

\* Settlement, requests interleaving at their awaits, store calls may reject.
NextPay == PayBegin \/ PayContinue \/ \E p \in PayReqs : PaymentSuccessThrows(p)
SpecPay == Init /\ [][NextPay]_vars

\* Users and their roles: the tokens, emails and bodies of the requests.
Tokens == {Undefined, BadToken} \cup Admins \cup Participants \cup Visitors
Newcomers == Participants \cup Visitors
\* The roles a body may name: the three the program knows and one it does not.
RoleInputs == Roles \cup {"superuser"}
RoleBodies == [email : Newcomers, role : RoleInputs]
UserBodies == [email : Newcomers, role : RoleInputs \cup {Undefined}, name : {"n1"}]
FirstLoginBodies == [email : Newcomers, role : {Undefined}, name : {"n1"}]
ProfileBodies == [name : {"n1"}]

\* The user record of the body's email can take one more login.
CanLogin(body) ==
    body.email \in DOMAIN users => users[body.email].lastLoggedIn < MaxLogins

RolesBeginSeq ==
    \/ ~InFlight /\ \E token \in Tokens, body \in RoleBodies :
           Request("updateRole", token, 0, body)
    \/ ~InFlight /\ contestSeq < MaxContests
                 /\ \E token \in Tokens, body \in RaceContestBodies :
                        Request("contests", token, 0, body)
    \/ ~InFlight /\ \E token \in Tokens, body \in ProfileBodies :
           Request("userProfileUpdate", token, 0, body)
    \/ ~InFlight /\ \E body \in UserBodies :
           CanLogin(body) /\ Request("user", Undefined, 0, body)

RolesContinue ==
    \/ VerifyJWT
    \/ Gate
    \/ ContestsInsert
    \/ UpdateRoleUpdate
    \/ UpdateRoleDelete
    \/ UserProfileUpdate
    \/ UserFind
    \/ UserUpdateLogin
    \/ UserInsert

\* Users and roles behind the gates, one request at a time.
NextRolesSeq == RolesBeginSeq \/ RolesContinue
SpecRolesSeq == Init /\ [][NextRolesSeq]_vars

CreatorRequestsBeginSeq ==
    \/ ~InFlight /\ \E token \in Tokens : Request("becomeCreator", token, 0, Undefined)
    \/ ~InFlight /\ \E token \in Tokens, body \in RoleBodies :
           Request("updateRole", token, 0, body)
    \/ ~InFlight /\ \E body \in FirstLoginBodies :
           CanLogin(body) /\ Request("user", Undefined, 0, body)

CreatorRequestsContinue ==
    \/ VerifyJWT
    \/ Gate
    \/ BecomeCreatorFind
    \/ BecomeCreatorInsert
    \/ UpdateRoleUpdate
    \/ UpdateRoleDelete
    \/ UserFind
    \/ UserUpdateLogin
    \/ UserInsert

\* Creator requests and the role changes that clear them, one request at a time.
NextCreatorRequestsSeq == CreatorRequestsBeginSeq \/ CreatorRequestsContinue
SpecCreatorRequestsSeq == Init /\ [][NextCreatorRequestsSeq]_vars

\* The admin routes: tokens and bodies.
AdminTokens == {Undefined, BadToken} \cup Admins \cup {"c1"}
StatusBodies == [status : Statuses \cup {Undefined}]

AdminBeginSeq ==
    \/ ~InFlight /\ \E data \in RaceContestBodies : PostContests("c1", data)
    \/ ~InFlight /\ \E token \in AdminTokens, id \in 0..MaxContests, body \in StatusBodies :
           Request("contestStatus", token, id, body)
    \/ ~InFlight /\ \E token \in AdminTokens, id \in 0..MaxContests :
           Request("contestsDelete", token, id, Undefined)

AdminContinue ==
    \/ VerifyJWT
    \/ Gate
    \/ ContestStatusUpdate
    \/ ContestsDeleteDelete

\* The admin routes, one request at a time.
NextAdminSeq == AdminBeginSeq \/ AdminContinue
SpecAdminSeq == Init /\ [][NextAdminSeq]_vars

\* Deletion by the admin of contests that have submissions, orders and a winner.
AdminDeleteBeginSeq ==
    \/ ~InFlight /\ \E data \in RaceContestBodies : PostContests("c1", data)
    \/ ~InFlight /\ \E id \in DOMAIN contests, status \in Statuses :
           PatchContestStatus("ad", id, status)
    \/ ~InFlight /\ \E contestId \in DOMAIN contests, email \in Participants :
           SubmitTask(contestId, email)
    \/ ~InFlight /\ \E p \in WinReqs, contestId \in DOMAIN contests :
           PatchWinner(p, "c1", contestId, [email |-> "p1", submissionId |-> 1])
    \/ ~InFlight /\ \E contestId \in DOMAIN contests, participant \in Participants :
           CreateCheckoutSession(contestId, participant)
    \/ ~InFlight /\ \E s \in 1..MaxSessions : CompleteSession(s)
    \/ ~InFlight /\ \E p \in PayReqs, sessionId \in 1..MaxSessions : PaymentSuccess(p, sessionId)
    \/ ~InFlight /\ \E token \in Admins, id \in ContestIds :
           Request("contestsDelete", token, id, Undefined)

AdminDeleteContinue ==
    \/ VerifyJWT
    \/ Gate
    \/ ContestsDeleteDelete

NextAdminDeleteSeq ==
    AdminDeleteBeginSeq \/ AdminDeleteContinue \/ WinnerContinue \/ PayContinue
SpecAdminDeleteSeq == Init /\ [][NextAdminDeleteSeq]_vars

\* Statistics over stores with several contests and orders: the contests are
\* Pending, Completed with a winner, or moved back to Confirmed with their winner
\* kept; every order has its paid session.
StatCallers == Participants \cup {"c1"}
StatWinner(email) == Some([email |-> email, submissionId |-> 1])
StatContestDocs ==
    {NewContestDoc(data) : data \in RaceContestBodies}
    \cup {[NewContestDoc(data) EXCEPT !.status = s, !.winner = StatWinner(e),
                                      !.approvedBy = "ad", !.approvedAt = Now] :
             data \in RaceContestBodies, s \in {"Completed", "Confirmed"}, e \in StatCallers}
StatOrders(n) == [1..n -> StatCallers]

InitStats ==
    /\ \E n \in 0..MaxStatContests : contests \in [1..n -> StatContestDocs]
    /\ contestSeq = MaxStatContests
    /\ \E n \in 0..MaxStatOrders : \E ps \in StatOrders(n) :
          /\ sessions = [i \in 1..n |->
                            [contestId |-> 1, participant |-> ps[i], status |-> "complete",
                             amountTotal |-> ContestFee * 100]]
          /\ orders = [i \in 1..n |->
                          [contestId |-> 1, transactionId |-> PaymentIntent(i),
                           participant |-> ps[i], contestFee |-> ContestFee]]
    /\ submissions = << >>
    /\ users = [e \in Emails |->
                   [role |-> IF e \in Admins THEN "admin"
                             ELSE IF e \in Creators THEN "contestCreator" ELSE "participant",
                    name |-> "n0", lastLoggedIn |-> 0]]
    /\ pay = [p \in PayReqs |-> IdlePay]
    /\ win = [p \in WinReqs |-> IdleWin]
    /\ del = [p \in DelReqs |-> IdleDel]
    /\ creatorRequests = << >>
    /\ userDups = << >>
    /\ usr = [p \in UsrReqs |-> IdleUsr]
    /\ req = IdleReq
    /\ resp = NoResponse

NextStats ==
    \/ \E email \in StatCallers : MyStats(email)
    \/ \E email \in StatCallers : ParticipantStats(email)
SpecStats == InitStats /\ [][NextStats]_vars

\* Statistics that join contests and orders: contests of two creators in any
\* status and category, orders of one participant spread over the contest ids
\* (an order may outlive its contest, the admin delete leaves orders in place).
MaxJoinOrders == 2
Categories == {"art", "code"}
JoinContestDocs ==
    {[NewContestDoc(data) EXCEPT !.status = s, !.category = k, !.contestCreator = cr] :
        data \in RaceContestBodies, s \in Statuses, k \in Categories, cr \in Creators}
JoinOrders(n) == [1..n -> 1..MaxStatContests]

InitJoinStats ==
    /\ \E n \in 0..MaxStatContests : contests \in [1..n -> JoinContestDocs]
    /\ contestSeq = MaxStatContests
    /\ \E n \in 0..MaxJoinOrders : \E cs \in JoinOrders(n) :
          /\ sessions = [i \in 1..n |->
                            [contestId |-> cs[i], participant |-> "p1", status |-> "complete",
                             amountTotal |-> ContestFee * 100]]
          /\ orders = [i \in 1..n |->
                          [contestId |-> cs[i], transactionId |-> PaymentIntent(i),
                           participant |-> "p1", contestFee |-> ContestFee]]
    /\ submissions = << >>
    /\ users = [e \in Emails |->
                   [role |-> IF e \in Admins THEN "admin"
                             ELSE IF e \in Creators THEN "contestCreator" ELSE "participant",
                    name |-> "n0", lastLoggedIn |-> 0]]
    /\ pay = [p \in PayReqs |-> IdlePay]
    /\ win = [p \in WinReqs |-> IdleWin]
    /\ del = [p \in DelReqs |-> IdleDel]
    /\ creatorRequests = << >>
    /\ userDups = << >>
    /\ usr = [p \in UsrReqs |-> IdleUsr]
    /\ req = IdleReq
    /\ resp = NoResponse

NextJoinStats ==
    \/ \E email \in Creators : CreatorStats(email)
    \/ \E email \in Participants : ParticipantStats(email)
SpecJoinStats == InitJoinStats /\ [][NextJoinStats]_vars

\* Requests whose store and provider calls may reject.
SubmitBodies == [contestId : ContestIds, email : Participants]

FailuresBeginSeq ==
    \/ ~InFlight /\ \E data \in RaceContestBodies : PostContests("c1", data)
    \/ ~InFlight /\ \E token \in AdminTokens, id \in ContestIds, body \in StatusBodies :
           Request("contestStatus", token, id, body)
    \/ ~InFlight /\ \E token \in AdminTokens, body \in RoleBodies :
           body.role = "contestCreator" /\ Request("updateRole", token, 0, body)
    \/ ~InFlight /\ \E body \in FirstLoginBodies :
           CanLogin(body) /\ Request("user", Undefined, 0, body)
    \/ ~InFlight /\ Len(submissions) < MaxSubmissions
                 /\ \E body \in SubmitBodies : Request("submitTask", Undefined, 0, body)

FailuresContinue ==
    \/ VerifyJWT
    \/ Gate
    \/ ContestStatusUpdate
    \/ UpdateRoleUpdate
    \/ UpdateRoleDelete
    \/ UserFind
    \/ UserUpdateLogin
    \/ UserInsert
    \/ SubmitTaskInsert

NextFailures == FailuresBeginSeq \/ FailuresContinue \/ Rejects
\* A call that does not reject resolves: the request goes on.
SpecFailures == Init /\ [][NextFailures]_vars /\ WF_vars(FailuresContinue)

\* Submissions and the status check the client makes before it submits.
PairBodies == [contestId : 0..MaxContests, email : Newcomers \cup Creators]

SubmitBeginSeq ==
    \/ ~InFlight /\ Len(submissions) <= MaxSubmissions
                 /\ \E body \in PairBodies : Request("submitTask", Undefined, 0, body)
    \/ ~InFlight /\ \E body \in PairBodies :
           ContestSubmissionStatus(body.contestId, body.email)

NextSubmitSeq == SubmitBeginSeq \/ SubmitTaskInsert
SpecSubmitSeq == Init /\ [][NextSubmitSeq]_vars

\* Winner declarations whose store calls may reject, one request at a time; the
\* submission id may also be one that no submission has.
FailWinnerRecs == [email : Participants, submissionId : 0..MaxSubmissions + 1]

WinnerFailBeginSeq ==
    \/ ~InFlight /\ \E data \in RaceContestBodies : PostContests("c1", data)
    \/ ~InFlight /\ \E id \in DOMAIN contests, status \in Statuses :
           PatchContestStatus("ad", id, status)
    \/ ~InFlight /\ \E contestId \in DOMAIN contests, email \in Participants :
           SubmitTask(contestId, email)
    \/ ~InFlight /\ \E p \in WinReqs, contestId \in ContestIds, winnerData \in FailWinnerRecs :
           PatchWinner(p, "c1", contestId, winnerData)

NextWinnerFailSeq ==
    WinnerFailBeginSeq \/ WinnerContinue \/ \E p \in WinReqs : PatchWinnerThrows(p)
SpecWinnerFailSeq == Init /\ [][NextWinnerFailSeq]_vars

\* Winner declarations interleaving at their awaits: one contest of c1, Pending
\* or Confirmed, with submissions of its participants already stored.
MaxRaceSubmissions == 2
RaceWinnerRecs == [email : Participants, submissionId : 1..MaxRaceSubmissions]
RaceSubmissions(n) ==
    [1..n -> [contestId : {1}, email : Participants, status : {"Pending"}]]

InitWinnerRace ==
    /\ \E data \in RaceContestBodies, s \in {"Pending", "Confirmed"} :
          contests = << [NewContestDoc(data) EXCEPT !.status = s] >>
    /\ contestSeq = 1
    /\ \E n \in 0..MaxRaceSubmissions : submissions \in RaceSubmissions(n)
    /\ orders = << >>
    /\ sessions = << >>
    /\ users = [e \in Emails |->
                   [role |-> IF e \in Admins THEN "admin"
                             ELSE IF e \in Creators THEN "contestCreator" ELSE "participant",
                    name |-> "n0", lastLoggedIn |-> 0]]
    /\ creatorRequests = << >>
    /\ userDups = << >>
    /\ usr = [p \in UsrReqs |-> IdleUsr]
    /\ pay = [p \in PayReqs |-> IdlePay]
    /\ win = [p \in WinReqs |-> IdleWin]
    /\ del = [p \in DelReqs |-> IdleDel]
    /\ req = IdleReq
    /\ resp = NoResponse

NextWinnerRace ==
    \/ \E p \in WinReqs, winnerData \in RaceWinnerRecs : PatchWinner(p, "c1", 1, winnerData)
    \/ \E p \in WinReqs : PatchWinnerFind(p)
    \/ \E p \in WinReqs : PatchWinnerUpdateContest(p)
    \/ \E p \in WinReqs : PatchWinnerUpdateSubmission(p)
SpecWinnerRace == InitWinnerRace /\ [][NextWinnerRace]_vars

\* Deletion by the creator with the admin's status changes and changes of the
\* recorded creator arriving between its awaits.
NextDeleteRace ==
    \/ \E caller \in Creators, data \in LifeContestBodies : PostContests(caller, data)
    \/ \E id \in ContestIds, creator \in Creators :
           PutContestsUpdate("c1", id, [NoUpdate EXCEPT !.contestCreator = Some(creator)])
    \/ \E id \in ContestIds, status \in Statuses : PatchContestStatus("ad", id, status)
    \/ \E p \in DelReqs, caller \in Emails, id \in 0..MaxContests :
           CreatorContestsDelete(p, caller, id)
    \/ \E p \in DelReqs : CreatorDeleteFind(p)
    \/ \E p \in DelReqs : CreatorDeleteDelete(p)
SpecDeleteRace == Init /\ [][NextDeleteRace]_vars

\* First logins interleaving at their awaits.
NextUserRace ==
    \/ \E p \in UsrReqs, body \in FirstLoginBodies : CanLogin(body) /\ PostUser(p, body)
    \/ \E p \in UsrReqs : PostUserFind(p)
    \/ \E p \in UsrReqs : PostUserUpdateLogin(p)
    \/ \E p \in UsrReqs : PostUserInsert(p)
SpecUserRace == Init /\ [][NextUserRace]_vars

\* ------------------------------------------------------------- claims
HasWinner(doc) == doc.winner # None

\* C1: every stored contest has a winner set if and only if its status is
\* Completed.
C1_WinnerIffCompleted ==
    \A c \in DOMAIN contests : HasWinner(contests[c]) <=> contests[c].status = "Completed"

\* The edges of the contest lifecycle.
LifecycleEdges ==
    {<<"Pending", "Confirmed">>, <<"Pending", "Rejected">>, <<"Confirmed", "Completed">>}

\* C2: the status of a stored contest changes only along Pending->Confirmed,
\* Pending->Rejected and Confirmed->Completed, so Completed and Rejected are
\* terminal.
C2_StatusOnlyAlongEdges ==
    [][\A c \in DOMAIN contests \cap DOMAIN contests' :
          contests'[c].status # contests[c].status
              => <<contests[c].status, contests'[c].status>> \in LifecycleEdges]_vars

\* A winner declaration by a caller who passed the creator gate, for a stored
\* contest, at its contest read.
DeclaresOn(p) ==
    /\ win[p].pc = "find"
    /\ verifyCREATOR(win[p].caller)
    /\ win[p].contestId \in DOMAIN contests

\* The request answers `out` in this step and has written nothing.
WinnerRefused(p, outs) ==
    /\ win'[p].pc = "idle"
    /\ resp'.route = "winner" /\ resp'.out \in outs
    /\ contests' = contests
    /\ submissions' = submissions

\* C5: a declaration on a contest that already has a winner answers Conflict and
\* leaves the contest (winner and status) as it was, whatever the winner data.
C5_SecondDeclarationConflict ==
    [][\A p \in WinReqs :
          (DeclaresOn(p) /\ HasWinner(contests[win[p].contestId]) /\ win'[p] # win[p])
              => WinnerRefused(p, {"Conflict"})]_vars

\* A second declaration, with other winner data, was refused: the first record stands.
C5_Witness ==
    /\ resp.route = "winner" /\ resp.out = "Conflict"
    /\ \E c \in DOMAIN contests :
          /\ contests[c].status = "Completed"
          /\ HasWinner(contests[c])

\* C6: a declaration on a stored contest whose status is Pending, Rejected or
\* Completed answers InvalidState (or Conflict) and writes neither contest nor
\* submission.
C6_NotConfirmedRefused ==
    [][\A p \in WinReqs :
          (DeclaresOn(p) /\ contests[win[p].contestId].status # "Confirmed"
                         /\ win'[p] # win[p])
              => WinnerRefused(p, {"InvalidState", "Conflict"})]_vars

C6_Witness ==
    /\ resp.route = "winner" /\ resp.out = "InvalidState"
    /\ \E c \in DOMAIN contests : contests[c].status \in {"Pending", "Rejected"}

\* C7: the declaration's contest write sets winner and status = Completed together,
\* on a Confirmed contest without winner, and touches nothing else; when the
\* declaration answers Success the submission with the given id is a Winner.
C7_WinnerWrittenWithCompleted ==
    [][\A p \in WinReqs :
          /\ (win[p].pc # "idle" /\ contests' # contests)
                => /\ win[p].pc = "updateContest"
                   /\ win[p].contestId \in DOMAIN contests
                   /\ contests[win[p].contestId].status = "Confirmed"
                   /\ ~HasWinner(contests[win[p].contestId])
                   /\ contests' = [contests EXCEPT ![win[p].contestId] =
                                     [@ EXCEPT !.winner = Some(win[p].winnerData),
                                               !.status = "Completed"]]
          /\ (win[p].pc # "idle" /\ win'[p].pc = "idle" /\ resp'.out = "Success")
                => /\ win[p].contestId \in DOMAIN contests
                   /\ contests'[win[p].contestId].status = "Completed"
                   /\ contests'[win[p].contestId].winner = Some(win[p].winnerData)
                   /\ win[p].winnerData.submissionId \in DOMAIN submissions
                         => submissions'[win[p].winnerData.submissionId].status = "Winner"]_vars

C7_Witness ==
    /\ resp.route = "winner" /\ resp.out = "Success"
    /\ \E c \in DOMAIN contests :
          /\ contests[c].status = "Completed"
          /\ HasWinner(contests[c])
          /\ contests[c].winner[1].submissionId \in DOMAIN submissions
          /\ submissions[contests[c].winner[1].submissionId].status = "Winner"

\* C8: the creator endpoint removes a contest only when its status is Pending and
\* the caller is its recorded creator; for a stored contest that is not Pending or
\* is another creator's it answers Forbidden and the contest stays stored.
C8_CreatorDeletesOwnPendingOnly ==
    [][\A p \in DelReqs :
          /\ (del[p].pc # "idle" /\ contests' # contests)
                => /\ del[p].id \in DOMAIN contests
                   /\ verifyCREATOR(del[p].caller)
                   /\ contests[del[p].id].status = "Pending"
                   /\ contests[del[p].id].contestCreator = del[p].caller
                   /\ contests' = RemoveContest(del[p].id)
          /\ (/\ del[p].pc = "find" /\ del'[p] # del[p]
              /\ verifyCREATOR(del[p].caller)
              /\ del[p].id \in DOMAIN contests
              /\ \/ contests[del[p].id].status # "Pending"
                 \/ contests[del[p].id].contestCreator # del[p].caller)
                => /\ del'[p].pc = "idle"
                   /\ resp' = Response("creatorDelete", "Forbidden", 0)
                   /\ contests' = contests]_vars

\* The handler (not the role gate) refused a caller although every stored contest
\* is Pending: the caller was not the recorded creator.
C8_Witness ==
    /\ resp = Response("creatorDelete", "Forbidden", 0)
    /\ DOMAIN contests # {}
    /\ \A c \in DOMAIN contests : contests[c].status = "Pending"

\* The transaction id and the contest of the session a settlement request names.
TxOf(p) == PaymentIntent(pay[p].sessionId)
SessionOf(p) == sessions[pay[p].sessionId]

\* C3: with one request at a time, no transaction id ever has two Orders; a call
\* that finds the Order of its session answers with that Order's id and changes
\* nothing; and the one call that increments participantsCount (by exactly one) is
\* the call that inserted the only Order of the transaction and answers its id.
C3_SequentialSettlementIdempotent ==
    /\ [](\A s \in DOMAIN sessions : Cardinality(OrdersOf(orders, PaymentIntent(s))) <= 1)
    /\ [][\A p \in PayReqs :
            /\ (pay[p].pc = "findOrder" /\ FindOrder(TxOf(p)) # 0 /\ pay'[p] # pay[p])
                  => /\ pay'[p].pc = "idle"
                     /\ resp' = Response("payment", "Returned", FindOrder(TxOf(p)))
                     /\ orders' = orders /\ contests' = contests
            /\ (pay[p].pc = "updateContest" /\ pay'[p] # pay[p]
                                            /\ pay[p].contestId \in DOMAIN contests)
                  => /\ OrdersOf(orders, TxOf(p)) = {pay[p].insertedId}
                     /\ resp' = Response("payment", "Settled", pay[p].insertedId)
                     /\ contests'[pay[p].contestId].participantsCount
                            = contests[pay[p].contestId].participantsCount + 1
                     /\ contests'[pay[p].contestId].participants
                            = contests[pay[p].contestId].participants \cup {pay[p].participant}
                     /\ orders' = orders]_vars

\* The retried call answered with the id of the one Order of the session.
C3_Witness ==
    /\ resp.route = "payment" /\ resp.out = "Returned" /\ resp.orderId # 0
    /\ \E s \in DOMAIN sessions :
          /\ OrdersOf(orders, PaymentIntent(s)) = {resp.orderId}
          /\ sessions[s].contestId \in DOMAIN contests
          /\ sessions[s].participant \in contests[sessions[s].contestId].participants

\* C4: interleaved settlement requests can leave two Orders with one transaction
\* id; every insert is made by a request whose own lookup found no Order, so a
\* transaction has at most one Order per request that looked up before the first
\* insert (the two requests in flight at once).
C4_DuplicateOnlyByStaleLookup ==
    /\ \A p \in PayReqs :
          pay[p].pc \in {"insertOrder", "updateContest"}
              => pay[p].order = 0 /\ pay[p].status = "complete" /\ pay[p].contest
    /\ \A s \in DOMAIN sessions :
          Cardinality(OrdersOf(orders, PaymentIntent(s))) <= Cardinality(PayReqs)

\* Two Orders carry the same transaction id.
C4_Witness ==
    \E i, j \in DOMAIN orders : i # j /\ orders[i].transactionId = orders[j].transactionId

\* C9: with one request at a time, a settlement request whose session is not
\* complete, or whose contest is not stored, or whose transaction already has an
\* Order, inserts no Order, leaves the contests as they are and answers with the
\* existing Order's id (0 for none).
C9_NoWriteUnlessFirstSettlement ==
    [][\A p \in PayReqs :
          (/\ pay[p].pc \in {"retrieve", "findContest", "findOrder"}
           /\ pay[p].sessionId \in DOMAIN sessions
           /\ IsValidId(SessionOf(p).contestId)
           /\ \/ SessionOf(p).status # "complete"
              \/ SessionOf(p).contestId \notin DOMAIN contests
              \/ FindOrder(TxOf(p)) # 0)
              => /\ orders' = orders
                 /\ contests' = contests
                 /\ pay'[p].pc \in {"findContest", "findOrder", "idle"}
                 /\ pay'[p].pc = "idle"
                       => resp' = Response("payment", "Returned", FindOrder(TxOf(p)))]_vars

\* A settlement for a paid session whose contest was deleted answered without an
\* order id and no Order exists.
C9_Witness ==
    /\ resp = Response("payment", "Returned", 0)
    /\ orders = << >>
    /\ \E s \in DOMAIN sessions :
          /\ sessions[s].status = "complete"
          /\ IsValidId(sessions[s].contestId)
          /\ sessions[s].contestId <= contestSeq
          /\ sessions[s].contestId \notin DOMAIN contests

\* C10: when a settlement request ends in the payment-processing-failed error, the
\* Order it inserted (if any) is matched by the contest update: the contest, if
\* still stored, lists the participant.
C10_NoPartialSettlementOnFailure ==
    [][\A p \in PayReqs :
          (/\ pay[p].pc # "idle" /\ pay'[p].pc = "idle"
           /\ resp' = Response("payment", "PaymentProcessingFailed", 0)
           /\ pay[p].insertedId # 0
           /\ pay[p].contestId \in DOMAIN contests')
              => pay[p].participant \in contests'[pay[p].contestId].participants]_vars

\* C11: every contest POST /contests creates is stored with status Pending and
\* no winner, whatever status the request body carries.
C11_CreatedPendingNoWinner ==
    [][\A c \in DOMAIN contests' \ DOMAIN contests :
          contests'[c].status = "Pending" /\ ~HasWinner(contests'[c])]_vars

\* A contest as POST /contests left it.
C11_Witness ==
    \E c \in DOMAIN contests :
        /\ contests[c].status = "Pending" /\ ~HasWinner(contests[c])
        /\ contests[c].approvedBy = Undefined

\* The role the gate of a route asks for.
RequiredRole(route) == IF route \in AdminRoutes THEN "admin" ELSE "contestCreator"
GatedRoutes == AdminRoutes \cup CreatorRoutes

\* C12: behind verifyJWT a request without a valid credential is answered
\* Unauthorized before the role gate is consulted; at the gate a caller whose
\* record is absent or has another role is answered Forbidden with the role read;
\* neither writes to a store; and the handler of a gated route runs, and writes,
\* only after the gate found the required role for the verified email.
C12_GatesGuardHandlers ==
    [][/\ (req.pc = "start" /\ req.route \in JWTRoutes /\ ~ValidToken(req.token))
             => /\ resp' = Response(req.route, "Unauthorized", 0)
                /\ req'.pc = "idle"
                /\ UNCHANGED stores
       /\ req.pc = "gate" => ValidToken(req.token) /\ req.tokenEmail = req.token
       /\ (req.pc = "gate" /\ Role(req.tokenEmail) # RequiredRole(req.route))
             => /\ resp' = Denied(req.route, Role(req.tokenEmail))
                /\ req'.pc = "idle"
                /\ UNCHANGED stores
       /\ (req'.pc \in HandlerAwaits /\ req.pc \notin HandlerAwaits)
             => /\ req.pc = "gate"
                /\ req.tokenEmail \in DOMAIN users
                /\ users[req.tokenEmail].role = RequiredRole(req.route)
       /\ (req.route \in GatedRoutes /\ stores' # stores)
             => req.pc \in HandlerAwaits \cup {"deleteRequest"}]_vars

\* An admin route answered Forbidden with the caller's role, a role the caller
\* was given after the first login.
C12_Witness ==
    /\ resp.out = "Forbidden"
    /\ resp.route \in AdminRoutes
    /\ resp.role = "contestCreator"

\* C13: PATCH /contest-status by a caller who passed the admin gate: a target
\* value other than Confirmed and Rejected is answered as invalid input with the
\* contests unchanged; a well-formed id of no stored contest is answered NotFound
\* with nothing written; a successful call stores the target status, the
\* verified email of the caller as approver and the time of the call.
C13_ContestStatusContract ==
    [][req.route = "contestStatus" =>
         /\ (req.pc = "gate" /\ Role(req.tokenEmail) = "admin"
                /\ req.body.status \notin {"Confirmed", "Rejected"})
               => /\ resp' = Response("contestStatus", "InvalidInput", 0)
                  /\ UNCHANGED stores
         /\ (req.pc = "updateStatus" /\ req.id \notin DOMAIN contests)
               => /\ resp' = Response("contestStatus", "NotFound", 0)
                  /\ UNCHANGED stores
         /\ contests' # contests
               => /\ resp' = Response("contestStatus", "Success", 0)
                  /\ req.body.status \in {"Confirmed", "Rejected"}
                  /\ req.id \in DOMAIN contests
                  /\ contests' = [contests EXCEPT ![req.id] =
                                     [@ EXCEPT !.status = req.body.status,
                                               !.approvedBy = req.token,
                                               !.approvedAt = Now]]
         /\ (req.pc = "updateStatus" /\ req.id \in DOMAIN contests)
               => contests'[req.id].status = req.body.status]_vars

\* A contest the admin has just rejected.
C13_Witness ==
    /\ resp = Response("contestStatus", "Success", 0)
    /\ \E c \in DOMAIN contests :
          /\ contests[c].status = "Rejected"
          /\ contests[c].approvedBy \in Admins
          /\ contests[c].approvedAt = Now

\* C17: DELETE /contests-delete of a stored contest by the admin removes that
\* contest, whatever its status, and changes no other contest, no order and no
\* submission.
C17_AdminDeleteNoCascade ==
    [][(req.route = "contestsDelete" /\ req.pc = "deleteContest"
            /\ req.id \in DOMAIN contests)
         => /\ DOMAIN contests' = DOMAIN contests \ {req.id}
            /\ \A c \in DOMAIN contests' : contests'[c] = contests[c]
            /\ resp' = Response("contestsDelete", "Success", 0)
            /\ orders' = orders
            /\ submissions' = submissions]_vars

\* A Completed contest has just been deleted: its order and the submission of
\* its winner are still stored.
C17_Witness ==
    /\ resp = Response("contestsDelete", "Success", 0)
    /\ \E o \in DOMAIN orders : orders[o].contestId \notin DOMAIN contests
    /\ \E i \in DOMAIN submissions :
          /\ submissions[i].contestId \notin DOMAIN contests
          /\ submissions[i].status = "Winner"

\* C14: a user record is created by POST /user only, with role participant
\* whatever role the body names; POST /user for an email that has a record
\* changes nothing but its lastLoggedIn; and the role of a record changes only
\* at the updateOne of PATCH /update-role, for a caller the admin gate let
\* through.
C14_RolesOnlyByAdmin ==
    [][/\ \A e \in DOMAIN users' \ DOMAIN users :
             /\ req.route = "user" /\ req.body.email = e
             /\ users'[e].role = "participant"
       /\ (req.route = "user" /\ req.pc \in {"start", "updateLogin"}
               /\ req.body.email \in DOMAIN users)
             => /\ users' = [users EXCEPT ![req.body.email].lastLoggedIn =
                                              users'[req.body.email].lastLoggedIn]
                /\ << contests, contestSeq, orders, submissions, creatorRequests, sessions >>'
                      = << contests, contestSeq, orders, submissions, creatorRequests, sessions >>
       /\ \A e \in DOMAIN users \cap DOMAIN users' :
             users'[e].role # users[e].role
                 => /\ req.route = "updateRole" /\ req.pc = "updateRole"
                    /\ req.body.email = e
                    /\ ValidToken(req.token)
                    /\ Role(req.token) = "admin"]_vars

\* The first login of an email: its record has role participant.
C14_Witness ==
    /\ resp = Response("user", "Success", 0)
    /\ \E e \in Visitors :
          /\ e \in DOMAIN users
          /\ users[e].role = "participant"
          /\ users[e].lastLoggedIn = 0

\* C15: the role of every user record is participant, contestCreator or admin,
\* whatever role a PATCH /update-role body names.
C15_RolesWithinKnown ==
    \A e \in DOMAIN users : users[e].role \in Roles

\* C16: requests not overlapping, POST /become-creator by a caller whose email
\* has a creator request is answered Conflict and adds none, so no email has two
\* requests; and when PATCH /update-role for an email has run, no request of
\* that email is left.
C16_OneCreatorRequestPerEmail ==
    /\ [](\A e \in Tokens : Cardinality(RequestsOf(creatorRequests, e)) <= 1)
    /\ [][/\ (req.route = "becomeCreator" /\ req.pc = "findRequest"
                 /\ \E i \in DOMAIN creatorRequests : creatorRequests[i] = req.tokenEmail)
                => /\ resp' = Response("becomeCreator", "Conflict", 0)
                   /\ req'.pc = "idle"
                   /\ UNCHANGED stores
          /\ (req.route = "updateRole" /\ req.pc = "deleteRequest")
                => /\ resp' = Response("updateRole", "Success", 0)
                   /\ \A i \in DOMAIN creatorRequests' :
                         creatorRequests'[i] # req.body.email]_vars

\* A second request of an email has just been refused: its first is stored.
C16_Witness ==
    /\ resp = Response("becomeCreator", "Conflict", 0)
    /\ \E i \in DOMAIN creatorRequests : creatorRequests[i] \in Participants

\* C18: the win percentage /my-stats and /Participant-stats report is
\* wins / participations x 100 to the nearest hundredth, participations being
\* the number of the caller's orders and wins the number of Completed contests
\* whose winner has the caller's email; it is 0.00 without orders and 50.00 for
\* 2 wins in 4 orders.
C18_WinPercentage ==
    resp.route \in {"myStats", "participantStats"} =>
        LET p == Cardinality({i \in DOMAIN orders : orders[i].participant = resp.email})
            w == Cardinality({c \in DOMAIN contests :
                                 /\ contests[c].status = "Completed"
                                 /\ HasWinner(contests[c])
                                 /\ contests[c].winner[1].email = resp.email})
            n == resp.winPercentage.whole * 100 + resp.winPercentage.frac
        IN /\ resp.participationCount = p
           /\ resp.winCount = w
           /\ resp.winPercentage.frac \in 0..99
           /\ p = 0 => n = 0
           /\ p > 0 => /\ 2 * (n * p - w * 10000) <= p
                       /\ 2 * (w * 10000 - n * p) <= p
           /\ (w = 2 /\ p = 4) => resp.winPercentage = [whole |-> 50, frac |-> 0]

\* 2 wins in 4 orders reported as 50.00.
C18_Witness ==
    /\ resp.route = "myStats"
    /\ resp.participationCount = 4
    /\ resp.winCount = 2
    /\ resp.winPercentage = [whole |-> 50, frac |-> 0]

\* C19: a request whose store or provider call fails is still answered: every
\* request in flight eventually gets its response, and no rejection leaves a
\* middleware or handler uncaught.
C19_EveryRequestAnswered ==
    /\ [](req.pc # "unhandled")
    /\ (req.pc # "idle") ~> (req.pc = "idle" /\ resp # NoResponse)

\* C20: no two stored submissions have the same contest id and the same
\* participant email.
C20_OneSubmissionPerPair ==
    \A i, j \in DOMAIN submissions :
        (/\ submissions[i].contestId = submissions[j].contestId
         /\ submissions[i].email = submissions[j].email) => i = j

\* The submission write of the declaration in slot p marks nothing: the store
\* call rejects, or the id is malformed or matches no submission.
SubmissionWriteFails(p) ==
    /\ win[p].pc = "updateSubmission"
    /\ \/ resp'.out = "InternalError"
       \/ win[p].winnerData.submissionId \notin DOMAIN submissions

\* C21: when the contest write of a winner declaration has succeeded and its
\* submission write fails, the contest stays Completed with its winner and no
\* submission is marked; a later declaration for that contest is refused as
\* already declared, and a submission is marked only by the submission write of
\* a declaration, so the submission stays unmarked.
C21_PartialDeclarationStays ==
    [][/\ \A p \in WinReqs :
             SubmissionWriteFails(p)
                 => /\ submissions' = submissions
                    /\ contests' = contests
                    /\ win[p].contestId \in DOMAIN contests
                    /\ contests[win[p].contestId].status = "Completed"
                    /\ HasWinner(contests[win[p].contestId])
       /\ \A p \in WinReqs :
             (DeclaresOn(p) /\ HasWinner(contests[win[p].contestId])
                 /\ resp'.out # "InternalError")
                 => WinnerRefused(p, {"Conflict"})
       /\ \A i \in DOMAIN submissions :
             (submissions'[i].status = "Winner" /\ submissions[i].status # "Winner")
                 => \E p \in WinReqs :
                       /\ win[p].pc = "updateSubmission"
                       /\ win[p].winnerData.submissionId = i]_vars

\* A declaration has just failed at its submission write: the contest is
\* Completed with a winner and the submission it named is not marked.
C21_Witness ==
    /\ resp = Response("winner", "InternalError", 0)
    /\ \E c \in DOMAIN contests :
          /\ contests[c].status = "Completed"
          /\ HasWinner(contests[c])
          /\ contests[c].winner[1].submissionId \in DOMAIN submissions
          /\ submissions[contests[c].winner[1].submissionId].status # "Winner"


\* C22: the status counts /creator-stats returns equal the number of the
\* creator's contests in each status, and totalParticipants and totalRevenue
\* equal the count and the fee sum of the orders referencing those contests,
\* whatever the number of orders per contest.
ContestsIn(email, status) ==
    {c \in DOMAIN contests :
        contests[c].contestCreator = email /\ contests[c].status = status}
OrdersCounted(email) ==
    {i \in DOMAIN orders :
        \E status \in {"Pending", "Confirmed", "Completed"} :
            orders[i].contestId \in ContestsIn(email, status)}
RECURSIVE FeeSum(_)
FeeSum(S) ==
    IF S = {} THEN 0
    ELSE LET i == CHOOSE x \in S : TRUE IN orders[i].contestFee + FeeSum(S \ {i})
C22_CreatorStatsExact ==
    resp.route = "creatorStats" =>
        /\ resp.pendingContests = Cardinality(ContestsIn(resp.email, "Pending"))
        /\ resp.confirmedContests = Cardinality(ContestsIn(resp.email, "Confirmed"))
        /\ resp.completedContests = Cardinality(ContestsIn(resp.email, "Completed"))
        /\ resp.totalParticipants = Cardinality(OrdersCounted(resp.email))
        /\ resp.totalRevenue = FeeSum(OrdersCounted(resp.email))

\* C23: when every order of the participant references an existing contest, the
\* per-category counts of /Participant-stats sum to the participant's order
\* count, each order under the category of its contest.
OrdersUnder(email, cat) ==
    {i \in DOMAIN orders :
        /\ orders[i].participant = email
        /\ orders[i].contestId \in DOMAIN contests
        /\ contests[orders[i].contestId].category = cat}
C23_CategoryCountsCoverOrders ==
    (/\ resp.route = "participantStats"
     /\ \A i \in DOMAIN orders :
            orders[i].participant = resp.email => orders[i].contestId \in DOMAIN contests)
    => \A cat \in Categories :
          Cardinality(OrdersUnder(resp.email, cat))
              = (IF cat \in DOMAIN resp.categoryStats THEN resp.categoryStats[cat] ELSE 0)


\* C24: with no request in flight, every stored contest's participantsCount is
\* the number of orders referencing it and every email in its participants has
\* such an order.
OrdersOn(c) == {i \in DOMAIN orders : orders[i].contestId = c}
C24_ParticipantsMatchOrders ==
    ~InFlight =>
        \A c \in DOMAIN contests :
            /\ contests[c].participantsCount = Cardinality(OrdersOn(c))
            /\ \A e \in contests[c].participants :
                   \E i \in OrdersOn(c) : orders[i].participant = e

\* C25: a settlement stores an order only for a contest that is Confirmed at
\* that moment.
C25_OrdersOnlyForConfirmed ==
    [][Len(orders') > Len(orders) =>
          LET o == orders'[Len(orders')]
          IN  /\ o.contestId \in DOMAIN contests
              /\ contests[o.contestId].status = "Confirmed"]_vars


\* C26: the winner of a contest is one of its participants, and the submission
\* the declaration marked Winner is a submission of that contest by that email.
C26_WinnerIsParticipantWithSubmission ==
    \A c \in DOMAIN contests :
        HasWinner(contests[c]) =>
            LET w == contests[c].winner[1]
            IN  /\ w.email \in contests[c].participants
                /\ \A s \in DOMAIN submissions :
                       (s = w.submissionId /\ submissions[s].status = "Winner") =>
                           /\ submissions[s].contestId = c
                           /\ submissions[s].email = w.email


\* C28: a PUT /contests-update that changes a contest, and a winner declaration
\* that completes one, are made by the contest's recorded creator.
C28_OnlyOwnerUpdatesOrDeclares ==
    [][/\ \A caller \in Emails, id \in ContestIds, updatedData \in LifeUpdateBodies :
              (PutContestsUpdate(caller, id, updatedData) /\ contests' # contests)
                  => caller = contests[id].contestCreator
       /\ \A p \in WinReqs :
              (PatchWinnerUpdateContest(p) /\ contests' # contests)
                  => win[p].caller = contests[win[p].contestId].contestCreator]_vars


\* C27: when winner declarations for one contest interleave, a winner record
\* once written is never replaced and at most one submission of the contest has
\* status Winner.
WinnersOf(c) ==
    {s \in DOMAIN submissions :
        submissions[s].contestId = c /\ submissions[s].status = "Winner"}
C27_FirstWinnerStands ==
    /\ [](\A c \in DOMAIN contests : Cardinality(WinnersOf(c)) <= 1)
    /\ [][\A c \in DOMAIN contests :
             (HasWinner(contests[c]) /\ c \in DOMAIN contests')
                 => contests'[c].winner = contests[c].winner]_vars


\* C29: the creator's delete never removes a contest whose stored status, at
\* the step that removes it, is Confirmed or Rejected.
C29_CreatorDeleteRemovesNoDecided ==
    [][\A p \in DelReqs :
          (/\ del[p].pc = "delete"
           /\ del'[p].pc = "idle"
           /\ del[p].id \in DOMAIN contests
           /\ del[p].id \notin DOMAIN contests')
              => contests[del[p].id].status \notin {"Confirmed", "Rejected"}]_vars


\* C30: in every reachable state there is at most one user record per email,
\* also when POST /user requests for a new email interleave.
RecordsOf(email) ==
    (IF email \in DOMAIN users THEN 1 ELSE 0)
        + Cardinality({i \in DOMAIN userDups : userDups[i].email = email})
C30_OneUserRecordPerEmail ==
    \A email \in Emails \cup Visitors : RecordsOf(email) <= 1

====
